---- MODULE Spec2Model ----
(***************************************************************************)
(* Conversational form-completion engine of hamzaadil56/VoiceAgent:        *)
(*   backend/v1/services/flow_engine.py   deterministic graph walker       *)
(*   backend/v1/services/agent_engine.py  tool-calling (agentic) driver    *)
(*   backend/v1/routes/public.py          manual completion route          *)
(*                                                                         *)
(* One respondent session is modelled.  Text is a TLA+ string over the     *)
(* alphabet Chars; a character is a string of length one.                  *)
(***************************************************************************)
EXTENDS Integers, Sequences, FiniteSets, TLC

\* ------------------------------------------------------------------------
\* Bounds of the model
\* ------------------------------------------------------------------------
\* longest respondent text drawn for the validator specification
MaxLen == 3
\* number of turns submitted to the session
MaxTurns == 3
\* save_answer calls the model may issue inside one turn, over all the
\* attempts of its retry loop
MaxToolCalls == 2
\* number of turns two handlers submit to one session between them
MaxOverlapTurns == 2

\* Python None for string-valued columns and results
None == "None"

\* ------------------------------------------------------------------------
\* Python str helpers (str.strip, str.lower, `in`, float)
\* ------------------------------------------------------------------------
Chars == {" ", "1", "5", "a", "A", "@", "n"}

CharAt(s, i) == SubSeq(s, i, i)

Tail1(s) == SubSeq(s, 2, Len(s))

RECURSIVE lstrip(_)
lstrip(s) == IF Len(s) > 0 /\ CharAt(s, 1) = " " THEN lstrip(Tail1(s)) ELSE s

RECURSIVE rstrip(_)
rstrip(s) ==
    IF Len(s) > 0 /\ CharAt(s, Len(s)) = " "
    THEN rstrip(SubSeq(s, 1, Len(s) - 1))
    ELSE s

\* str.strip()
strip(s) == rstrip(lstrip(s))

lower_char(c) == IF c = "A" THEN "a" ELSE c

\* str.lower()
RECURSIVE lower(_)
lower(s) == IF Len(s) = 0 THEN "" ELSE lower_char(CharAt(s, 1)) \o lower(Tail1(s))

\* needle in hay  (substring test)
contains(needle, hay) ==
    \E i \in 1..(Len(hay) - Len(needle) + 1) :
        SubSeq(hay, i, i + Len(needle) - 1) = needle

IsDigit(c) == c \in {"1", "5"}

DigitVal(c) == IF c = "1" THEN 1 ELSE 5

\* float(s) parses "nan" in any letter case to the IEEE not-a-number
IsNaN(s) == lower(s) = "nan"

\* float(s) raises ValueError unless s is a float literal; over Chars the
\* literals are the non-empty digit strings and the spellings of "nan" (no
\* sign, point or exponent character is in the alphabet, and the
\* surrounding blanks are already stripped by the caller; an inner blank is
\* an error for float too).
float_ok(s) ==
    \/ Len(s) > 0 /\ \A i \in 1..Len(s) : IsDigit(CharAt(s, i))
    \/ IsNaN(s)

\* the value of a digit string
RECURSIVE float(_)
float(s) ==
    IF Len(s) = 0 THEN 0
    ELSE 10 * float(SubSeq(s, 1, Len(s) - 1)) + DigitVal(CharAt(s, Len(s)))

\* float(s) < m and float(s) > m; every comparison with not-a-number is false
float_lt(s, m) == ~IsNaN(s) /\ float(s) < m
float_gt(s, m) == ~IsNaN(s) /\ float(s) > m

\* ------------------------------------------------------------------------
\* re.match for the patterns used by the modelled forms
\* ------------------------------------------------------------------------
\* the e-mail pattern of the test fixture: ^[^@\s]+@[^@\s]+$
EmailRegex == "^[^@\\s]+@[^@\\s]+$"
\* a prefix pattern: re.match anchors at the start only
OneRegex == "1"

re_match(pattern, s) ==
    CASE pattern = EmailRegex ->
            \E i \in 2..(Len(s) - 1) :
                /\ CharAt(s, i) = "@"
                /\ \A j \in 1..Len(s) :
                      /\ CharAt(s, j) # " "
                      /\ (j # i => CharAt(s, j) # "@")
      [] pattern = OneRegex -> Len(s) > 0 /\ CharAt(s, 1) = "1"
      [] OTHER -> FALSE

\* dict.get(key) is not None
Has(d, k) == k \in DOMAIN d

SeqToSet(q) == {q[i] : i \in 1..Len(q)}

\* ', '.join(map(str, enum))
RECURSIVE join(_)
join(q) ==
    IF Len(q) = 0 THEN ""
    ELSE IF Len(q) = 1 THEN q[1]
    ELSE q[1] \o ", " \o join(Tail(q))

\* ------------------------------------------------------------------------
\* flow_engine._validate_answer
\* ------------------------------------------------------------------------
ReasonRequired == "This question is required. Please provide an answer."
ReasonNumber == "Please provide a valid number."
ReasonMin(m) == "Value should be at least " \o ToString(m) \o "."
ReasonMax(m) == "Value should be at most " \o ToString(m) \o "."
ReasonRegex == "The answer format is not valid. Please try again."
ReasonEnum(enum) == "Please choose one of: " \o join(enum) \o "."

Accept == [ok |-> TRUE, reason |-> None]
Reject(reason) == [ok |-> FALSE, reason |-> reason]

\* the pattern is tested before the number is parsed
_validate_answer_RegexFirst(node, text) ==
    LET rules == node.validation_json
        normalized == strip(text)
    IN  IF node.required /\ normalized = "" THEN Reject(ReasonRequired)
        ELSE IF Has(rules, "regex") /\ rules.regex # "" /\ normalized # ""
                /\ ~re_match(rules.regex, normalized)
             THEN Reject(ReasonRegex)
        ELSE IF Has(rules, "type") /\ rules.type = "number" /\ ~float_ok(normalized)
             THEN Reject(ReasonNumber)
        ELSE IF Has(rules, "type") /\ rules.type = "number"
                /\ Has(rules, "min") /\ float_lt(normalized, rules.min)
             THEN Reject(ReasonMin(rules.min))
        ELSE IF Has(rules, "type") /\ rules.type = "number"
                /\ Has(rules, "max") /\ float_gt(normalized, rules.max)
             THEN Reject(ReasonMax(rules.max))
        ELSE IF Has(rules, "enum") /\ Len(rules.enum) > 0
                /\ lower(normalized) \notin {lower(v) : v \in SeqToSet(rules.enum)}
             THEN Reject(ReasonEnum(rules.enum))
        ELSE Accept

_validate_answer(node, text) ==
    LET rules == node.validation_json
        normalized == strip(text)
    IN  IF node.required /\ normalized = "" THEN Reject(ReasonRequired)
        ELSE IF Has(rules, "type") /\ rules.type = "number" /\ ~float_ok(normalized)
             THEN Reject(ReasonNumber)
        ELSE IF Has(rules, "type") /\ rules.type = "number"
                /\ Has(rules, "min") /\ float_lt(normalized, rules.min)
             THEN Reject(ReasonMin(rules.min))
        ELSE IF Has(rules, "type") /\ rules.type = "number"
                /\ Has(rules, "max") /\ float_gt(normalized, rules.max)
             THEN Reject(ReasonMax(rules.max))
        ELSE IF Has(rules, "regex") /\ rules.regex # "" /\ normalized # ""
                /\ ~re_match(rules.regex, normalized)
             THEN Reject(ReasonRegex)
        ELSE IF Has(rules, "enum") /\ Len(rules.enum) > 0
                /\ lower(normalized) \notin {lower(v) : v \in SeqToSet(rules.enum)}
             THEN Reject(ReasonEnum(rules.enum))
        ELSE Accept

\* ------------------------------------------------------------------------
\* Stored form definitions (rows of forms, form_graph_nodes, form_graph_edges)
\* ------------------------------------------------------------------------
NoRules == << >>
NoCondition == << >>

\* form_graph_nodes; v1 is the linear fixture name -> email -> feedback,
\* v2 a branching form with a loop and a node without outgoing edges
FormGraphNode ==
    << [id |-> "n1", form_version_id |-> "v1", key |-> "name",
        prompt |-> "What is your name?", required |-> TRUE,
        validation_json |-> NoRules],
       [id |-> "n2", form_version_id |-> "v1", key |-> "email",
        prompt |-> "What is your email?", required |-> TRUE,
        validation_json |-> [regex |-> EmailRegex]],
       [id |-> "n3", form_version_id |-> "v1", key |-> "feedback",
        prompt |-> "Any feedback?", required |-> FALSE,
        validation_json |-> NoRules],
       [id |-> "n4", form_version_id |-> "v2", key |-> "choice",
        prompt |-> "Which one?", required |-> TRUE,
        validation_json |-> NoRules],
       [id |-> "n5", form_version_id |-> "v2", key |-> "age",
        prompt |-> "How old are you?", required |-> FALSE,
        validation_json |-> [type |-> "number", min |-> 5, max |-> 15]],
       [id |-> "n6", form_version_id |-> "v2", key |-> "plan",
        prompt |-> "Which plan?", required |-> TRUE,
        validation_json |-> [enum |-> <<"A", "15">>]] >>

\* form_graph_edges in insertion order
FormGraphEdge ==
    << [form_version_id |-> "v1", from_node_id |-> "n1", to_node_id |-> "n2",
        condition_json |-> NoCondition],
       [form_version_id |-> "v1", from_node_id |-> "n2", to_node_id |-> "n3",
        condition_json |-> NoCondition],
       [form_version_id |-> "v1", from_node_id |-> "n3", to_node_id |-> None,
        condition_json |-> NoCondition],
       [form_version_id |-> "v2", from_node_id |-> "n4", to_node_id |-> "n6",
        condition_json |-> [startswith |-> "a"]],
       [form_version_id |-> "v2", from_node_id |-> "n4", to_node_id |-> "n5",
        condition_json |-> [equals |-> "a "]],
       [form_version_id |-> "v2", from_node_id |-> "n4", to_node_id |-> "n4",
        condition_json |-> [contains |-> "A"]],
       [form_version_id |-> "v2", from_node_id |-> "n5", to_node_id |-> None,
        condition_json |-> [equals |-> "15"]],
       [form_version_id |-> "v2", from_node_id |-> "n5", to_node_id |-> "n6",
        condition_json |-> NoCondition] >>

\* f.get("required", False): a field without the key is optional
FieldRequired_DefaultOptional(f) == IF Has(f, "required") THEN f.required ELSE FALSE

\* fields_schema entries; a field without the key "required" is required
\* (f.get("required", True))
FieldRequired(f) == IF Has(f, "required") THEN f.required ELSE TRUE

\* forms: f1, f2 carry a graph, f3..f6 a field schema (agentic)
Form ==
    [f1 |-> [id |-> "f1", title |-> "Test Form", persona |-> "Friendly tester",
             system_prompt |-> "", fields_schema |-> << >>],
     f2 |-> [id |-> "f2", title |-> "Branching", persona |-> "",
             system_prompt |-> "", fields_schema |-> << >>],
     f3 |-> [id |-> "f3", title |-> "Contact", persona |-> "Friendly",
             system_prompt |-> "",
             fields_schema |-> << [name |-> "full_name", required |-> TRUE],
                                  [name |-> "email", description |-> "your e-mail address"] >>],
     f4 |-> [id |-> "f4", title |-> "Profile", persona |-> "",
             system_prompt |-> "",
             fields_schema |-> << [name |-> "email", required |-> FALSE],
                                  [name |-> "full_name", required |-> TRUE,
                                   description |-> "your full name"] >>],
     f5 |-> [id |-> "f5", title |-> "Prompt only", persona |-> "",
             system_prompt |-> "Ask about their day.", fields_schema |-> << >>],
     f6 |-> [id |-> "f6", title |-> "Optional only", persona |-> "",
             system_prompt |-> "",
             fields_schema |-> << [name |-> "email", required |-> FALSE] >>]]

\* the sessions the model starts from: (form_id, form_version_id, current_node_id)
\* graph sessions start at the version's start node; sessions created by
\* create_public_session have no version and no node.  current_node_id is
\* a plain column without a foreign key: the third graph session points at
\* a node that is not stored.
SessionShapes ==
    { <<"f1", "v1", "n1">>, <<"f2", "v2", "n4">>, <<"f2", "v2", "n9">>,
      <<"f3", None, None>>, <<"f4", None, None>>,
      <<"f5", None, None>>, <<"f6", None, None>> }

\* respondent texts submitted to the session
UserTexts == {"", "a", " A ", "1", "5", "15", "55", "a@a"}

\* respondent text submitted to an agentic session; the engine stores it as
\* typed and the model alone interprets it
AgentTexts == {" 15"}

\* arguments the model passes to save_answer; no schema holds "nickname"
ToolFieldNames == {"full_name", "email", "nickname"}
ToolValues == {" a ", "15"}

\* final_output of a successful run ("" stands for an empty / None output)
FinalOutputs == {"", "Thanks!"}

\* ------------------------------------------------------------------------
\* State
\* ------------------------------------------------------------------------
VARIABLES
    \* respondent_sessions row
    form_id, form_version_id, status, current_node_id,
    \* answers rows (field_key, value_text), messages rows (role, content)
    \* in insertion order, and the number of submissions rows of the session
    answers, messages, submissions,
    \* the value last returned to the caller of a turn
    result,
    \* the operation that acted last, the text of the last turn, and how
    \* many turns were submitted
    op, user_text, turns,
    \* the agentic turn in flight: position, FormSessionContext
    \* .collected_answers (the same dict object as process_agent_message's
    \* `collected`), the retry counter, the input handed to the model, the
    \* save_answer calls issued in the current turn and the last string
    \* save_answer returned
    pc, collected, attempt, input_items, tool_calls, tool_return,
    \* validator specification: the drawn node and text, and the outcome
    v_node, v_text, v_result, v_done,
    \* the session row and its rows as of the last commit
    durable,
    \* the string generate_initial_greeting returned
    greeting,
    \* the turns in flight of the handlers that serve the session, and the
    \* messages rows in created_at order with the handler that wrote each
    req, created,
    \* SessionStore: the backend chosen at construction, the in-memory dict,
    \* the sorted sets of the Redis backend and the clock; the arguments and
    \* the return value of the last check_rate_limit call and the times of
    \* the calls made for each key
    rl_redis, rl_memory, rl_zset, rl_now, rl_max, rl_window, rl_key, rl_ret, rl_calls

session_vars == <<form_id, form_version_id, status, current_node_id>>
store_vars == <<answers, messages, submissions>>
agent_vars == <<pc, collected, attempt, input_items, tool_calls, tool_return>>
validator_vars == <<v_node, v_text, v_result, v_done>>
overlap_vars == <<req, created>>
rate_vars == <<rl_redis, rl_memory, rl_zset, rl_now, rl_max, rl_window, rl_key,
               rl_ret, rl_calls>>
vars == <<form_id, form_version_id, status, current_node_id,
          answers, messages, submissions, result, op, user_text, turns,
          pc, collected, attempt, input_items, tool_calls, tool_return,
          v_node, v_text, v_result, v_done, durable, greeting,
          req, created,
          rl_redis, rl_memory, rl_zset, rl_now, rl_max, rl_window, rl_key,
          rl_ret, rl_calls>>

\* the session row and its rows as the open transaction sees them
Pending ==
    [status |-> status, current_node_id |-> current_node_id,
     answers |-> answers, messages |-> messages, submissions |-> submissions]

\* db.commit(): what the transaction wrote becomes durable
commit == durable' = Pending'

\* a flush that also commits
flush_Commits == durable' = Pending'

\* db.flush(): the rows are sent to the database inside the open
\* transaction; nothing becomes durable
flush == durable' = durable

\* rows
Message(role, content) == [role |-> role, content |-> content]
Answer(field_key, value_text) == [field_key |-> field_key, value_text |-> value_text]

\* FlowResult / AgentResult
FlowResult(accepted, state, assistant_message, current_node_key) ==
    [accepted |-> accepted, state |-> state,
     assistant_message |-> assistant_message,
     current_node_key |-> current_node_key]

AgentResult(assistant_message, state, accepted) ==
    FlowResult(accepted, state, assistant_message, None)

NoResult == FlowResult(FALSE, None, None, None)

\* db.get(FormGraphNode, id)
NodeExists(id) == \E i \in 1..Len(FormGraphNode) : FormGraphNode[i].id = id
GetNode(id) == FormGraphNode[CHOOSE i \in 1..Len(FormGraphNode) : FormGraphNode[i].id = id]

\* db.get(Form, id)
FormExists(id) == id \in DOMAIN Form

\* the answers of the session as a dict: later rows win
_load_collected_answers(rows) ==
    [k \in {rows[i].field_key : i \in 1..Len(rows)} |->
        LET last == CHOOSE i \in 1..Len(rows) :
                        /\ rows[i].field_key = k
                        /\ \A j \in 1..Len(rows) : rows[j].field_key = k => j <= i
        IN  rows[last].value_text]

\* ------------------------------------------------------------------------
\* flow_engine helpers
\* ------------------------------------------------------------------------
_personalize(prompt, persona) ==
    IF strip(persona) = "" THEN prompt
    ELSE prompt \o "\n\nTone: " \o strip(persona) \o "."

\* the comparison keeps the letter case
_edge_matches_CaseSensitive(condition, answer) ==
    IF DOMAIN condition = {} THEN TRUE
    ELSE IF Has(condition, "equals")
         THEN strip(answer) = strip(condition.equals)
    ELSE IF Has(condition, "contains")
         THEN contains(strip(condition.contains), strip(answer))
    ELSE FALSE

_edge_matches(condition, answer) ==
    IF DOMAIN condition = {} THEN TRUE
    ELSE IF Has(condition, "equals")
         THEN lower(strip(answer)) = lower(strip(condition.equals))
    ELSE IF Has(condition, "contains")
         THEN contains(lower(strip(condition.contains)), lower(strip(answer)))
    ELSE FALSE

\* the edges leaving from_node_id, in stored order
OutgoingEdges(version_id, from_node_id) ==
    LET Leaves(e) == e.form_version_id = version_id /\ e.from_node_id = from_node_id
    IN  SelectSeq(FormGraphEdge, Leaves)

\* the query lacks the from_node_id filter: the first matching edge of the
\* version is followed
_next_node_AnyEdge(version_id, from_node_id, answer) ==
    LET OfVersion(e) == e.form_version_id = version_id
        edges == SelectSeq(FormGraphEdge, OfVersion)
        matching == {i \in 1..Len(edges) : _edge_matches(edges[i].condition_json, answer)}
    IN  IF matching = {} THEN None
        ELSE LET first == CHOOSE i \in matching : \A j \in matching : i <= j
             IN  IF edges[first].to_node_id = None THEN None
                 ELSE IF NodeExists(edges[first].to_node_id)
                      THEN edges[first].to_node_id
                 ELSE None

\* the id of the node to go to, or None
_next_node(version_id, from_node_id, answer) ==
    LET edges == OutgoingEdges(version_id, from_node_id)
        matching == {i \in 1..Len(edges) : _edge_matches(edges[i].condition_json, answer)}
    IN  IF matching = {} THEN None
        ELSE LET first == CHOOSE i \in matching : \A j \in matching : i <= j
             IN  IF edges[first].to_node_id = None THEN None
                 ELSE IF NodeExists(edges[first].to_node_id)
                      THEN edges[first].to_node_id
                 ELSE None

CompletionText == "Thank you. Your submission is complete."
InactiveText == "This session is no longer active."
InvalidStateText == "Session state is invalid."

\* ------------------------------------------------------------------------
\* flow_engine.process_user_message
\* ------------------------------------------------------------------------
\* the guard forgotten: every session is taken to be active
Inactive_NoGuard(session_status) == FALSE

\* respondent_session.status != "active"
Inactive(session_status) == session_status # "active"

\* the guard's return: nothing is written
InactiveTurn ==
    /\ result' = FlowResult(FALSE, status, InactiveText, None)
    /\ UNCHANGED <<status, current_node_id, store_vars>>

\* the current node is missing: nothing is written
InvalidStateTurn ==
    /\ result' = FlowResult(FALSE, "error", InvalidStateText, None)
    /\ UNCHANGED <<status, current_node_id, store_vars>>

\* the answer is stored before the validator's verdict is looked at
RejectTurn_Persists(current_node, text, reason) ==
    /\ messages' = messages \o <<Message("user", text), Message("assistant", reason)>>
    /\ answers' = Append(answers, Answer(current_node.key, strip(text)))
    /\ result' = FlowResult(FALSE, "active", reason, current_node.key)
    /\ UNCHANGED <<status, current_node_id, submissions>>

\* the validator rejected the text
RejectTurn(current_node, text, reason) ==
    /\ messages' = messages \o <<Message("user", text), Message("assistant", reason)>>
    /\ result' = FlowResult(FALSE, "active", reason, current_node.key)
    /\ UNCHANGED <<status, current_node_id, answers, submissions>>

\* the completion that leaves no submission behind
CompleteTurn_NoSubmission(current_node, text) ==
    /\ answers' = Append(answers, Answer(current_node.key, strip(text)))
    /\ status' = "completed"
    /\ current_node_id' = None
    /\ submissions' = submissions
    /\ messages' = messages \o <<Message("user", text),
                                 Message("assistant", CompletionText)>>
    /\ result' = FlowResult(TRUE, "completed", CompletionText, None)

\* the text was accepted and no next node was resolved
CompleteTurn(current_node, text) ==
    /\ answers' = Append(answers, Answer(current_node.key, strip(text)))
    /\ status' = "completed"
    /\ current_node_id' = None
    /\ submissions' = IF submissions = 0 THEN 1 ELSE submissions
    /\ messages' = messages \o <<Message("user", text),
                                 Message("assistant", CompletionText)>>
    /\ result' = FlowResult(TRUE, "completed", CompletionText, None)

\* the walk forgets where it is while the session stays active
AdvanceTurn_ClearsNode(current_node, text, next_node) ==
    LET assistant_message ==
            _personalize(GetNode(next_node).prompt,
                         IF FormExists(form_id) THEN Form[form_id].persona ELSE "")
    IN  /\ answers' = Append(answers, Answer(current_node.key, strip(text)))
        /\ current_node_id' = None
        /\ messages' = messages \o <<Message("user", text),
                                     Message("assistant", assistant_message)>>
        /\ result' = FlowResult(TRUE, "active", assistant_message, GetNode(next_node).key)
        /\ UNCHANGED <<status, submissions>>

\* the text was accepted and the walk moves to next_node
AdvanceTurn(current_node, text, next_node) ==
    LET assistant_message ==
            _personalize(GetNode(next_node).prompt,
                         IF FormExists(form_id) THEN Form[form_id].persona ELSE "")
    IN  /\ answers' = Append(answers, Answer(current_node.key, strip(text)))
        /\ current_node_id' = next_node
        /\ messages' = messages \o <<Message("user", text),
                                     Message("assistant", assistant_message)>>
        /\ result' = FlowResult(TRUE, "active", assistant_message, GetNode(next_node).key)
        /\ UNCHANGED <<status, submissions>>

ProcessUserMessage(text) ==
    /\ pc = "idle"
    /\ form_version_id # None
    /\ turns < MaxTurns
    /\ turns' = turns + 1
    /\ op' = "process_user_message"
    /\ user_text' = text
    /\ UNCHANGED <<form_id, form_version_id, agent_vars, validator_vars, greeting, overlap_vars, rate_vars>>
    /\ IF Inactive(status) THEN InactiveTurn
       ELSE IF ~NodeExists(current_node_id) THEN InvalidStateTurn
       ELSE
         LET current_node == GetNode(current_node_id)
             v == _validate_answer(current_node, text)
             reason == IF v.reason = None \/ v.reason = "" THEN "Please try again." ELSE v.reason
             next_node == _next_node(form_version_id, current_node.id, text)
         IN  IF ~v.ok THEN RejectTurn(current_node, text, reason)
             ELSE IF next_node = None THEN CompleteTurn(current_node, text)
             ELSE AdvanceTurn(current_node, text, next_node)
    /\ commit

\* ------------------------------------------------------------------------
\* routes/public.complete_session
\* ------------------------------------------------------------------------
\* the route toggles the status instead of setting it
CompleteSession_Reopens ==
    /\ pc = "idle"
    /\ op' = "complete_session"
    /\ status' = IF status = "completed" THEN "active" ELSE "completed"
    /\ current_node_id' = None
    /\ submissions' = IF submissions = 0 THEN 1 ELSE submissions
    /\ UNCHANGED <<form_id, form_version_id, answers, messages, result, user_text,
                   turns, agent_vars, validator_vars, greeting, overlap_vars, rate_vars>>
    /\ commit

\* a submission is added without looking for an existing one
CompleteSession_AddsSubmission ==
    /\ pc = "idle"
    /\ op' = "complete_session"
    /\ status' = "completed"
    /\ current_node_id' = None
    /\ submissions' = submissions + 1
    /\ UNCHANGED <<form_id, form_version_id, answers, messages, result, user_text,
                   turns, agent_vars, validator_vars, greeting, overlap_vars, rate_vars>>
    /\ commit

CompleteSession ==
    /\ pc = "idle"
    /\ op' = "complete_session"
    /\ status' = "completed"
    /\ current_node_id' = None
    /\ submissions' = IF submissions = 0 THEN 1 ELSE submissions
    /\ UNCHANGED <<form_id, form_version_id, answers, messages, result, user_text,
                   turns, agent_vars, validator_vars, greeting, overlap_vars, rate_vars>>
    /\ commit

\* ------------------------------------------------------------------------
\* agent_engine
\* ------------------------------------------------------------------------
\* for attempt in range(3)
MaxAttempts == 3
\* _load_history(..., max_messages=10)
max_messages == 10

ThankYouText == "Thank you! Your responses have been recorded."
TroubleText == "I'm having trouble processing that. Please try again."
RepeatText == "Could you repeat that?"
FormNotFoundText == "Form not found."
AllCollectedText == "All required fields collected. Thank the user warmly and say goodbye."

\* [f["name"] for f in fields_schema if f.get("required", True)]
RequiredFields(schema) ==
    LET names == [i \in 1..Len(schema) |-> schema[i].name]
        IsReq(n) == \E i \in 1..Len(schema) : schema[i].name = n /\ FieldRequired(schema[i])
    IN  SelectSeq(names, IsReq)

\* [f for f in required if f not in answered]
MissingRequired(schema, answered) ==
    LET Missing(n) == n \notin DOMAIN answered
    IN  SelectSeq(RequiredFields(schema), Missing)

\* dict[k] = v
DictSet(d, k, v) == [x \in DOMAIN d \cup {k} |-> IF x = k THEN v ELSE d[x]]

\* the last max_messages user/assistant messages
_load_history(rows) ==
    LET IsChat(m) == m.role \in {"user", "assistant"}
        items == SelectSeq(rows, IsChat)
    IN  IF Len(items) > max_messages
        THEN SubSeq(items, Len(items) - max_messages + 1, Len(items))
        ELSE items

\* process_agent_message up to the first await of Runner.run
AgentBegin(text) ==
    /\ pc = "idle"
    /\ form_version_id = None
    /\ turns < MaxTurns
    /\ turns' = turns + 1
    /\ op' = "process_agent_message"
    /\ user_text' = text
    /\ UNCHANGED <<session_vars, answers, submissions, tool_return, validator_vars, greeting, overlap_vars, rate_vars>>
    /\ IF Inactive(status)
       THEN /\ result' = AgentResult(InactiveText, status, FALSE)
            /\ UNCHANGED <<messages, pc, collected, attempt, input_items, tool_calls>>
            /\ commit
       ELSE IF ~FormExists(form_id)
       THEN /\ result' = AgentResult(FormNotFoundText, "error", FALSE)
            /\ UNCHANGED <<messages, pc, collected, attempt, input_items, tool_calls>>
            /\ commit
       ELSE /\ collected' = _load_collected_answers(answers)
            /\ messages' = Append(messages, Message("user", text))
            /\ input_items' = _load_history(messages') \o <<Message("user", text)>>
            /\ attempt' = 0
            /\ tool_calls' = 0
            /\ pc' = "run"
            /\ UNCHANGED result
            /\ flush

\* the membership test left out
UnknownField_Never(valid_fields, field_name) == FALSE

\* valid_fields and field_name not in valid_fields
UnknownField(valid_fields, field_name) ==
    valid_fields # {} /\ field_name \notin valid_fields

\* delete-then-insert that deletes every row of the session
Upsert_DropsRows(rows, field_name, value) ==
    <<Answer(field_name, strip(value))>>

\* the existing row of the field is left as it is
Upsert_KeepsFirst(rows, field_name, value) ==
    LET existing == {i \in 1..Len(rows) : rows[i].field_key = field_name}
    IN  IF existing # {}
        THEN rows
        ELSE Append(rows, Answer(field_name, strip(value)))

\* the existing row of the field is updated, else a row is added
Upsert(rows, field_name, value) ==
    LET existing == {i \in 1..Len(rows) : rows[i].field_key = field_name}
    IN  IF existing # {}
        THEN [rows EXCEPT ![CHOOSE i \in existing : TRUE].value_text = strip(value)]
        ELSE Append(rows, Answer(field_name, strip(value)))

\* the save_answer tool, called by the model during Runner.run.  The error
\* string stops before the list of valid names.
save_answer(field_name, value) ==
    LET form == Form[form_id]
        valid_fields == {form.fields_schema[i].name : i \in 1..Len(form.fields_schema)}
        existing == {i \in 1..Len(answers) : answers[i].field_key = field_name}
        new_collected == DictSet(collected, field_name, strip(value))
        missing_required == MissingRequired(form.fields_schema, new_collected)
    IN  IF UnknownField(valid_fields, field_name)
        THEN /\ tool_return' = "Error: '" \o field_name \o "' is not a valid field."
             /\ UNCHANGED <<status, current_node_id, answers, submissions, collected>>
        ELSE IF Cardinality(existing) > 1
        \* scalar_one_or_none raises MultipleResultsFound
        THEN /\ tool_return' = "Error: MultipleResultsFound"
             /\ UNCHANGED <<status, current_node_id, answers, submissions, collected>>
        ELSE /\ answers' = Upsert(answers, field_name, value)
             /\ collected' = new_collected
             /\ IF Len(missing_required) = 0
                THEN /\ status' = "completed"
                     /\ current_node_id' = None
                     /\ submissions' = IF submissions = 0 THEN 1 ELSE submissions
                     /\ tool_return' = AllCollectedText
                ELSE /\ tool_return' = "Saved. Still need: " \o join(missing_required)
                                        \o ". Ask the user for the next one only."
                     /\ UNCHANGED <<status, current_node_id, submissions>>

SaveAnswer(field_name, value) ==
    /\ pc = "run"
    /\ tool_calls < MaxToolCalls
    /\ tool_calls' = tool_calls + 1
    /\ op' = "save_answer"
    /\ save_answer(field_name, value)
    /\ UNCHANGED <<form_id, form_version_id, messages, result, user_text, turns,
                   pc, attempt, input_items, validator_vars, greeting, overlap_vars, rate_vars>>
    /\ flush

\* the reply is returned without being stored
Finish_DropsReply(assistant_message, new_status) ==
    /\ messages' = messages
    /\ result' = AgentResult(assistant_message, new_status, TRUE)
    /\ pc' = "idle"
    /\ collected' = << >>
    /\ attempt' = 0
    /\ input_items' = << >>
    /\ tool_calls' = 0
    /\ tool_return' = None
    /\ commit

\* the tail of process_agent_message: the reply is stored and returned,
\* and the locals of the call are gone
Finish(assistant_message, new_status) ==
    /\ messages' = Append(messages, Message("assistant", assistant_message))
    /\ result' = AgentResult(assistant_message, new_status, TRUE)
    /\ pc' = "idle"
    /\ collected' = << >>
    /\ attempt' = 0
    /\ input_items' = << >>
    /\ tool_calls' = 0
    /\ tool_return' = None
    /\ commit

\* Runner.run returned a result
RunReturns(final_output) ==
    /\ pc = "run"
    /\ op' = "run_returned"
    /\ UNCHANGED <<session_vars, answers, submissions, user_text, turns, validator_vars, greeting, overlap_vars, rate_vars>>
    /\ Finish(IF final_output # "" THEN strip(final_output) ELSE RepeatText, status)

\* a fallback that never completes the session itself
Fallback_NeverCompletes ==
    IF status = "completed"
    THEN [status |-> status, submissions |-> submissions, message |-> ThankYouText]
    ELSE [status |-> status, submissions |-> submissions, message |-> TroubleText]

\* the reply computed when no attempt produced one
Fallback ==
    LET form == Form[form_id]
        fresh == _load_collected_answers(answers)
        missing == MissingRequired(form.fields_schema, fresh)
        next_f == missing[1]
        described == {i \in 1..Len(form.fields_schema) : form.fields_schema[i].name = next_f}
        first == CHOOSE i \in described : \A j \in described : i <= j
        desc == IF described = {} THEN next_f
                ELSE IF Has(form.fields_schema[first], "description")
                     THEN form.fields_schema[first].description
                ELSE next_f
    IN  IF status = "completed"
        THEN [status |-> status, submissions |-> submissions, message |-> ThankYouText]
        ELSE IF Len(missing) = 0
        THEN [status |-> "completed",
              submissions |-> IF submissions = 0 THEN 1 ELSE submissions,
              message |-> ThankYouText]
        ELSE IF Cardinality(DOMAIN fresh) > Cardinality(DOMAIN collected)
        THEN [status |-> status, submissions |-> submissions,
              message |-> "Got it. Could you tell me: " \o desc \o "?"]
        ELSE [status |-> status, submissions |-> submissions, message |-> TroubleText]

\* a loop that allows one attempt more than range(3)
RunRaises_OneMore(transient) ==
    /\ pc = "run"
    /\ op' = "run_raised"
    /\ UNCHANGED <<form_id, form_version_id, current_node_id, answers, user_text, turns,
                   validator_vars, greeting, overlap_vars, rate_vars>>
    /\ IF transient /\ attempt < MaxAttempts
       THEN /\ attempt' = attempt + 1
            /\ UNCHANGED <<status, submissions, messages, result, pc, tool_calls,
                           collected, input_items, tool_return>>
            /\ flush
       ELSE /\ status' = Fallback.status
            /\ submissions' = Fallback.submissions
            /\ Finish(Fallback.message, Fallback.status)

\* Runner.run raised; transient says whether the text of the exception holds
\* one of tool_use_failed, rate_limit, 429, timeout
RunRaises(transient) ==
    /\ pc = "run"
    /\ op' = "run_raised"
    /\ UNCHANGED <<form_id, form_version_id, current_node_id, answers, user_text, turns,
                   validator_vars, greeting, overlap_vars, rate_vars>>
    /\ IF transient /\ attempt + 1 < MaxAttempts
       THEN /\ attempt' = attempt + 1
            /\ UNCHANGED <<status, submissions, messages, result, pc, tool_calls,
                           collected, input_items, tool_return>>
            /\ flush
       ELSE /\ status' = Fallback.status
            /\ submissions' = Fallback.submissions
            /\ Finish(Fallback.message, Fallback.status)

\* for attempt in range(3) of generate_initial_greeting
GreetingAttempts == 3

\* the templated welcome (the dash of the source is written --)
WelcomeText(title) ==
    "Hi! Welcome to " \o title \o ". I'll ask you a few questions--let's get started!"

\* what the greeting model returns ("" stands for an empty / None output)
GreetingOutputs == {"", " ", " Hello! "}

\* the tail of generate_initial_greeting and the commit of
\* create_public_session
GreetFinish(text) ==
    /\ messages' = Append(messages, Message("assistant", text))
    /\ greeting' = text
    /\ pc' = "idle"
    /\ attempt' = 0
    /\ commit

\* the output is taken as it is, blank or not
GreetReturns_AcceptsBlank(final_output) ==
    /\ pc = "greet"
    /\ op' = "generate_initial_greeting"
    /\ UNCHANGED <<session_vars, answers, submissions, result, user_text, turns,
                   collected, input_items, tool_calls, tool_return,
                   validator_vars, overlap_vars, rate_vars>>
    /\ GreetFinish(strip(final_output))

\* Runner.run of the greeting agent returned
GreetReturns(final_output) ==
    LET text == IF final_output # "" THEN strip(final_output) ELSE ""
    IN  /\ pc = "greet"
        /\ op' = "generate_initial_greeting"
        /\ UNCHANGED <<session_vars, answers, submissions, result, user_text, turns,
                       collected, input_items, tool_calls, tool_return,
                       validator_vars, overlap_vars, rate_vars>>
        /\ IF text # ""
           THEN GreetFinish(text)
           ELSE IF attempt + 1 < GreetingAttempts
           THEN /\ attempt' = attempt + 1
                /\ UNCHANGED <<messages, greeting, pc>>
                /\ flush
           ELSE GreetFinish(WelcomeText(Form[form_id].title))

\* Runner.run of the greeting agent raised
GreetRaises ==
    /\ pc = "greet"
    /\ op' = "generate_initial_greeting"
    /\ UNCHANGED <<session_vars, answers, submissions, result, user_text, turns,
                   collected, input_items, tool_calls, tool_return,
                   validator_vars, overlap_vars, rate_vars>>
    /\ IF attempt + 1 < GreetingAttempts
       THEN /\ attempt' = attempt + 1
            /\ UNCHANGED <<messages, greeting, pc>>
            /\ flush
       ELSE GreetFinish(WelcomeText(Form[form_id].title))

\* ------------------------------------------------------------------------
\* Turns of one session served by two handlers
\* ------------------------------------------------------------------------
\* the chat route and the 'stop' branch of the voice websocket
Requests == {"http", "voice"}

\* the forms of the sessions two handlers serve, and what their models pass
\* to save_answer and return
OverlapForms == {"f3", "f6"}
OverlapFieldNames == {"full_name", "email"}
OverlapOutputs == {"Thanks!"}

\* a handler that serves no turn; status is the status attribute of the
\* RespondentSession object the handler holds
IdleRequest ==
    [pc |-> "idle", user_text |-> "", status |-> "active", collected |-> << >>,
     writes |-> << >>, completes |-> FALSE, sub_added |-> FALSE, calls |-> 0,
     reply |-> None]

NoTurnInFlight ==
    /\ req = [r \in Requests |-> IdleRequest]
    /\ created = << >>

\* db.get(RespondentSession, session_id).status: the chat route opens a new
\* database session for every request and reads the row; the websocket keeps
\* one database session (expire_on_commit=False) whose identity map returns
\* the object loaded earlier
SeenStatus(r) == IF r = "voice" THEN req[r].status ELSE durable.status

\* the answers rows after the writes of a transaction: an update changes the
\* committed row it found, an insert adds a row
RECURSIVE ApplyWrites(_, _)
ApplyWrites(rows, ws) ==
    IF Len(ws) = 0 THEN rows
    ELSE LET w == Head(ws)
             next == IF w.insert
                     THEN Append(rows, Answer(w.field_key, w.value_text))
                     ELSE [rows EXCEPT ![w.index].value_text = w.value_text]
         IN  ApplyWrites(next, Tail(ws))

\* the answers rows a query of handler r returns: the committed rows and
\* the rows r flushed itself
View(r) == ApplyWrites(durable.answers, req[r].writes)

\* the messages rows that are committed, as Message rows
Committed(rows) ==
    LET IsCommitted(m) == m.committed
        kept == SelectSeq(rows, IsCommitted)
    IN  [i \in 1..Len(kept) |-> Message(kept[i].role, kept[i].content)]

\* rollback: the rows handler r created and did not commit are gone
WithoutPending(rows, r) ==
    LET Stays(m) == m.committed \/ m.owner # r
    IN  SelectSeq(rows, Stays)

\* public_message / the 'stop' branch up to line 236 of process_agent_message
ReqBegin(r, text) ==
    /\ req[r].pc = "idle"
    /\ turns < MaxOverlapTurns
    /\ turns' = turns + 1
    /\ IF Inactive(SeenStatus(r))
       THEN req' = [req EXCEPT ![r].user_text = text, ![r].reply = InactiveText]
       ELSE IF ~FormExists(form_id)
       THEN req' = [req EXCEPT ![r].user_text = text, ![r].reply = FormNotFoundText]
       ELSE req' = [req EXCEPT ![r] =
                       [IdleRequest EXCEPT !.pc = "entered", !.user_text = text,
                                           !.status = SeenStatus(r),
                                           !.collected = _load_collected_answers(durable.answers)]]
    /\ UNCHANGED <<session_vars, store_vars, result, op, user_text, agent_vars,
                   validator_vars, greeting, durable, created, rate_vars>>

\* the user message is added and flushed (lines 238-239); when another
\* handler has flushed and not committed, a database that admits one writer
\* (SQLite) makes the flush raise, and the handler is left by the exception
ReqFlush(r, flush_ok) ==
    /\ req[r].pc = "entered"
    /\ flush_ok \/ \E other \in Requests \ {r} : req[other].pc = "run"
    /\ IF flush_ok
       THEN /\ created' = Append(created, [role |-> "user", content |-> req[r].user_text,
                                           owner |-> r, committed |-> FALSE])
            /\ req' = [req EXCEPT ![r].pc = "run"]
       ELSE /\ req' = [req EXCEPT ![r] = [IdleRequest EXCEPT
                                              !.status = IF r = "voice" THEN durable.status
                                                         ELSE "active"]]
            /\ UNCHANGED created
    /\ UNCHANGED <<session_vars, store_vars, result, op, user_text, turns, agent_vars,
                   validator_vars, greeting, durable, rate_vars>>

\* save_answer called by the model of handler r's run
ReqSave(r, field_name, value) ==
    LET form == Form[form_id]
        me == req[r]
        valid_fields == {form.fields_schema[i].name : i \in 1..Len(form.fields_schema)}
        stored == {i \in 1..Len(durable.answers) :
                      durable.answers[i].field_key = field_name}
        own == {j \in 1..Len(me.writes) :
                   me.writes[j].insert /\ me.writes[j].field_key = field_name}
        new_collected == DictSet(me.collected, field_name, strip(value))
        missing_required == MissingRequired(form.fields_schema, new_collected)
        new_writes ==
            IF own # {}
            THEN [me.writes EXCEPT ![CHOOSE j \in own : TRUE].value_text = strip(value)]
            ELSE IF stored # {}
            THEN Append(me.writes, [insert |-> FALSE, index |-> CHOOSE i \in stored : TRUE,
                                    field_key |-> field_name, value_text |-> strip(value)])
            ELSE Append(me.writes, [insert |-> TRUE, index |-> 0,
                                    field_key |-> field_name, value_text |-> strip(value)])
    IN  /\ me.pc = "run"
        /\ me.calls < MaxToolCalls
        /\ IF UnknownField(valid_fields, field_name)
              \/ Cardinality(stored) + Cardinality(own) > 1
           THEN req' = [req EXCEPT ![r].calls = @ + 1]
           ELSE req' = [req EXCEPT
                    ![r].calls = @ + 1,
                    ![r].writes = new_writes,
                    ![r].collected = new_collected,
                    ![r].status = IF Len(missing_required) = 0 THEN "completed" ELSE @,
                    ![r].completes = @ \/ Len(missing_required) = 0,
                    ![r].sub_added = @ \/ ( /\ Len(missing_required) = 0
                                            /\ durable.submissions = 0 )]
        /\ UNCHANGED <<session_vars, store_vars, result, op, user_text, turns, agent_vars,
                       validator_vars, greeting, durable, created, rate_vars>>

\* lines 290-294 and the db.commit() of the handler.  The submissions table
\* admits one row per session: when handler r inserted one and another
\* handler's row is committed, the insert fails and nothing of r's turn is
\* committed.  The websocket keeps its RespondentSession object for the next
\* turn; the object of the chat route is dropped with the request.
ReqCommit(r, assistant_message, seen_status, completes, sub_added) ==
    IF sub_added /\ durable.submissions > 0
    THEN /\ created' = WithoutPending(created, r)
         /\ req' = [req EXCEPT ![r] = [IdleRequest EXCEPT !.status = IF r = "voice" THEN durable.status
                                                               ELSE "active"]]
         /\ UNCHANGED durable
    ELSE /\ created' =
            LET all == Append(created, [role |-> "assistant", content |-> assistant_message,
                                        owner |-> r, committed |-> FALSE])
            IN  [i \in 1..Len(all) |->
                    IF all[i].owner = r THEN [all[i] EXCEPT !.committed = TRUE] ELSE all[i]]
         /\ durable' = [status |-> IF completes THEN "completed" ELSE durable.status,
                        current_node_id |-> durable.current_node_id,
                        answers |-> View(r),
                        messages |-> Committed(created'),
                        submissions |-> durable.submissions + IF sub_added THEN 1 ELSE 0]
         /\ req' = [req EXCEPT ![r] =
                       [IdleRequest EXCEPT
                           !.status = IF r # "voice" THEN "active"
                                      ELSE IF completes THEN "completed"
                                      ELSE seen_status,
                           !.reply = assistant_message]]

\* Runner.run of handler r returned
ReqReturns(r, final_output) ==
    /\ req[r].pc = "run"
    /\ ReqCommit(r, IF final_output # "" THEN strip(final_output) ELSE RepeatText,
                 req[r].status, req[r].completes, req[r].sub_added)
    /\ UNCHANGED <<session_vars, store_vars, result, op, user_text, turns, agent_vars,
                   validator_vars, greeting, rate_vars>>

\* Runner.run of handler r raised for the last time: lines 268-288.
\* db.expire makes the next read of status load the row again.
ReqRaises(r) ==
    LET form == Form[form_id]
        me == req[r]
        reloaded == IF me.completes THEN "completed" ELSE durable.status
        fresh == _load_collected_answers(View(r))
        missing == MissingRequired(form.fields_schema, fresh)
        next_f == missing[1]
        described == {i \in 1..Len(form.fields_schema) : form.fields_schema[i].name = next_f}
        first == CHOOSE i \in described : \A j \in described : i <= j
        desc == IF described = {} THEN next_f
                ELSE IF Has(form.fields_schema[first], "description")
                     THEN form.fields_schema[first].description
                ELSE next_f
    IN  /\ me.pc = "run"
        /\ IF reloaded = "completed"
           THEN ReqCommit(r, ThankYouText, reloaded, me.completes, me.sub_added)
           ELSE IF Len(missing) = 0
           THEN ReqCommit(r, ThankYouText, reloaded, TRUE,
                          me.sub_added \/ durable.submissions = 0)
           ELSE IF Cardinality(DOMAIN fresh) > Cardinality(DOMAIN me.collected)
           THEN ReqCommit(r, "Got it. Could you tell me: " \o desc \o "?",
                          reloaded, me.completes, me.sub_added)
           ELSE ReqCommit(r, TroubleText, reloaded, me.completes, me.sub_added)
        /\ UNCHANGED <<session_vars, store_vars, result, op, user_text, turns, agent_vars,
                       validator_vars, greeting, rate_vars>>

\* ------------------------------------------------------------------------
\* session_store.SessionStore.check_rate_limit
\* ------------------------------------------------------------------------
\* calls made to the limiter, and the largest reading of the clock
MaxCalls == 4
MaxClock == 3

\* rate limit keys, and the arguments max_requests and window_seconds
RateKeys == {"client-1", "client-2"}
MaxRequestsArgs == {1, 2}
WindowArgs == {1, 2}

\* SessionStore.get on the in-memory dict: a missing or expired key is None,
\* which check_rate_limit turns into []
MemoryGet(key, time) ==
    IF key \notin DOMAIN rl_memory THEN << >>
    ELSE IF time > rl_memory[key].expires_at THEN << >>
    ELSE rl_memory[key].value

\* the members of the sorted set of a key; Redis drops the key once its
\* time to live has passed
ZMembers(key, time) ==
    IF key \notin DOMAIN rl_zset THEN {}
    ELSE IF time >= rl_zset[key].expires_at THEN {}
    ELSE rl_zset[key].members

\* check_rate_limit(key, max_requests, window_seconds) with time.time()
\* reading now
check_rate_limit(key, max_requests, window_seconds, now) ==
    IF rl_redis
    THEN LET \* zremrangebyscore(rate_key, 0, now - window_seconds)
             kept == {t \in ZMembers(key, now) : ~(0 <= t /\ t <= now - window_seconds)}
             \* zadd(rate_key, {str(now): now}): the member is the text of now
             members == kept \cup {now}
             \* zcard(rate_key)
             count == Cardinality(members)
         IN  /\ rl_zset' = DictSet(rl_zset, key,
                               [members |-> members, expires_at |-> now + window_seconds])
             /\ rl_ret' = (count <= max_requests)
             /\ UNCHANGED rl_memory
    ELSE LET InWindow(t) == t > now - window_seconds
             entries == Append(SelectSeq(MemoryGet(key, now), InWindow), now)
         IN  /\ rl_memory' = DictSet(rl_memory, key,
                                 [value |-> entries, expires_at |-> now + window_seconds])
             /\ rl_ret' = (Len(entries) <= max_requests)
             /\ UNCHANGED rl_zset

\* one call of the limiter; the clock has advanced by tick since the last call
CheckRateLimit(key, tick) ==
    /\ Cardinality(UNION {{<<k, i>> : i \in 1..Len(rl_calls[k])} : k \in RateKeys}) < MaxCalls
    /\ rl_now + tick <= MaxClock
    /\ rl_now' = rl_now + tick
    /\ rl_key' = key
    /\ check_rate_limit(key, rl_max, rl_window, rl_now')
    /\ rl_calls' = [rl_calls EXCEPT ![key] = Append(@, rl_now')]
    /\ UNCHANGED <<session_vars, store_vars, result, op, user_text, turns, agent_vars,
                   validator_vars, greeting, durable, overlap_vars, rl_redis, rl_max, rl_window>>

\* the store before its first call (in-memory backend)
RateLimiterUnused ==
    /\ rl_redis = FALSE
    /\ rl_memory = << >>
    /\ rl_zset = << >>
    /\ rl_now = 0
    /\ rl_max = 1
    /\ rl_window = 1
    /\ rl_key = None
    /\ rl_ret = TRUE
    /\ rl_calls = [k \in RateKeys |-> << >>]

\* ------------------------------------------------------------------------
\* Specification of a session
\* ------------------------------------------------------------------------
NoNode == [required |-> FALSE, validation_json |-> NoRules]

Init ==
    /\ \E shape \in SessionShapes :
          /\ form_id = shape[1]
          /\ form_version_id = shape[2]
          /\ current_node_id = shape[3]
    /\ status = "active"
    /\ answers = << >>
    /\ messages = << >>
    /\ submissions = 0
    /\ result = NoResult
    /\ op = "none"
    /\ user_text = ""
    /\ turns = 0
    /\ pc = "idle"
    /\ collected = << >>
    /\ attempt = 0
    /\ input_items = << >>
    /\ tool_calls = 0
    /\ tool_return = None
    /\ v_node = NoNode
    /\ v_text = ""
    /\ v_result = Accept
    /\ v_done = FALSE
    /\ durable = Pending
    /\ greeting = None
    /\ NoTurnInFlight
    /\ RateLimiterUnused

Next ==
    \/ \E text \in UserTexts : ProcessUserMessage(text)
    \/ CompleteSession
    \/ \E text \in AgentTexts : AgentBegin(text)
    \/ \E field_name \in ToolFieldNames, value \in ToolValues : SaveAnswer(field_name, value)
    \/ \E final_output \in FinalOutputs : RunReturns(final_output)
    \/ \E transient \in BOOLEAN : RunRaises(transient)

Spec == Init /\ [][Next]_vars

\* ------------------------------------------------------------------------
\* Specification of a session whose turns may abort
\* ------------------------------------------------------------------------
\* an exception leaves the handler while the run is awaited (the task is
\* cancelled, or a flush raises): db.commit() is not reached, db.close()
\* discards the open transaction and the request fails
TurnAborts ==
    /\ pc = "run"
    /\ op' = "turn_aborted"
    /\ status' = durable.status
    /\ current_node_id' = durable.current_node_id
    /\ answers' = durable.answers
    /\ messages' = durable.messages
    /\ submissions' = durable.submissions
    /\ result' = NoResult
    /\ pc' = "idle"
    /\ collected' = << >>
    /\ attempt' = 0
    /\ input_items' = << >>
    /\ tool_calls' = 0
    /\ tool_return' = None
    /\ UNCHANGED <<form_id, form_version_id, user_text, turns, validator_vars, greeting, overlap_vars, rate_vars, durable>>

NextCommit ==
    \/ Next
    \/ TurnAborts

SpecCommit == Init /\ [][NextCommit]_vars

\* ------------------------------------------------------------------------
\* Specification of the validator: a node and a text are drawn, then
\* _validate_answer is applied
\* ------------------------------------------------------------------------
RECURSIVE Texts(_)
Texts(n) ==
    IF n = 0 THEN {""}
    ELSE LET shorter == Texts(n - 1)
         IN  shorter \cup {s \o c : s \in shorter, c \in Chars}

Opt(present, key, value) == IF present THEN key :> value ELSE << >>

\* validation_json dicts: every combination of a number type, a min and a
\* max of 5 or 15 (0 stands for no bound), one of the two patterns and an
\* enum
ValidationRules ==
    { Opt(t, "type", "number") @@ Opt(lo # 0, "min", lo) @@ Opt(hi # 0, "max", hi)
        @@ Opt(rx # None, "regex", rx) @@ Opt(en, "enum", <<"A", "15">>) :
        t \in BOOLEAN, lo \in {0, 5, 15}, hi \in {0, 5, 15},
        rx \in {None, EmailRegex, OneRegex}, en \in BOOLEAN }

ValidatorNodes ==
    { [required |-> r, validation_json |-> rules] :
        r \in BOOLEAN, rules \in ValidationRules }

InitValidator ==
    /\ form_id = "f1"
    /\ form_version_id = "v1"
    /\ current_node_id = "n1"
    /\ status = "active"
    /\ answers = << >>
    /\ messages = << >>
    /\ submissions = 0
    /\ result = NoResult
    /\ op = "none"
    /\ user_text = ""
    /\ turns = 0
    /\ pc = "idle"
    /\ collected = << >>
    /\ attempt = 0
    /\ input_items = << >>
    /\ tool_calls = 0
    /\ tool_return = None
    /\ v_node \in ValidatorNodes
    /\ v_text \in Texts(MaxLen)
    /\ v_result = Accept
    /\ v_done = FALSE
    /\ durable = Pending
    /\ greeting = None
    /\ NoTurnInFlight
    /\ RateLimiterUnused

Validate ==
    /\ ~v_done
    /\ v_result' = _validate_answer(v_node, v_text)
    /\ v_done' = TRUE
    /\ UNCHANGED <<session_vars, store_vars, result, op, user_text, turns, agent_vars,
                   v_node, v_text, durable, greeting, overlap_vars, rate_vars>>

NextValidator == Validate

SpecValidator == InitValidator /\ [][NextValidator]_vars

\* ------------------------------------------------------------------------
\* Specification of a session from its creation
\* ------------------------------------------------------------------------
\* create_public_session has added and flushed the session row of a
\* configured form and awaits generate_initial_greeting; nothing is
\* committed yet
InitGreeting ==
    /\ \E shape \in SessionShapes :
          /\ shape[2] = None
          /\ Form[shape[1]].system_prompt # "" \/ Len(Form[shape[1]].fields_schema) > 0
          /\ form_id = shape[1]
          /\ form_version_id = shape[2]
          /\ current_node_id = shape[3]
    /\ status = "active"
    /\ answers = << >>
    /\ messages = << >>
    /\ submissions = 0
    /\ result = NoResult
    /\ op = "none"
    /\ user_text = ""
    /\ turns = 0
    /\ pc = "greet"
    /\ collected = << >>
    /\ attempt = 0
    /\ input_items = << >>
    /\ tool_calls = 0
    /\ tool_return = None
    /\ v_node = NoNode
    /\ v_text = ""
    /\ v_result = Accept
    /\ v_done = FALSE
    /\ durable = [status |-> None, current_node_id |-> None, answers |-> << >>,
                  messages |-> << >>, submissions |-> 0]
    /\ greeting = None
    /\ NoTurnInFlight
    /\ RateLimiterUnused

NextGreeting ==
    \/ \E final_output \in GreetingOutputs : GreetReturns(final_output)
    \/ GreetRaises
    \/ CompleteSession
    \/ \E text \in AgentTexts : AgentBegin(text)
    \/ \E field_name \in ToolFieldNames, value \in ToolValues : SaveAnswer(field_name, value)
    \/ \E final_output \in FinalOutputs : RunReturns(final_output)
    \/ \E transient \in BOOLEAN : RunRaises(transient)

SpecGreeting == InitGreeting /\ [][NextGreeting]_vars

\* ------------------------------------------------------------------------
\* Specification of the turns of one session served by two handlers
\* ------------------------------------------------------------------------
\* the sessions two handlers serve: the agentic forms
InitOverlap ==
    /\ \E shape \in SessionShapes :
          /\ shape[1] \in OverlapForms
          /\ form_id = shape[1]
          /\ form_version_id = shape[2]
          /\ current_node_id = shape[3]
    /\ status = "active"
    /\ answers = << >>
    /\ messages = << >>
    /\ submissions = 0
    /\ result = NoResult
    /\ op = "none"
    /\ user_text = ""
    /\ turns = 0
    /\ pc = "idle"
    /\ collected = << >>
    /\ attempt = 0
    /\ input_items = << >>
    /\ tool_calls = 0
    /\ tool_return = None
    /\ v_node = NoNode
    /\ v_text = ""
    /\ v_result = Accept
    /\ v_done = FALSE
    /\ durable = Pending
    /\ greeting = None
    /\ NoTurnInFlight
    /\ RateLimiterUnused

NextOverlap ==
    \/ \E r \in Requests, text \in AgentTexts : ReqBegin(r, text)
    \/ \E r \in Requests, flush_ok \in BOOLEAN : ReqFlush(r, flush_ok)
    \/ \E r \in Requests, field_name \in OverlapFieldNames, value \in ToolValues :
          ReqSave(r, field_name, value)
    \/ \E r \in Requests, final_output \in OverlapOutputs : ReqReturns(r, final_output)
    \/ \E r \in Requests : ReqRaises(r)

SpecOverlap == InitOverlap /\ [][NextOverlap]_vars

\* ------------------------------------------------------------------------
\* Specification of the rate limiter: a backend and the arguments are
\* drawn, then check_rate_limit is called for either key as the clock
\* advances
\* ------------------------------------------------------------------------
\* a session that takes no part
SessionAtRest ==
    /\ form_id = "f1"
    /\ form_version_id = "v1"
    /\ current_node_id = "n1"
    /\ status = "active"
    /\ answers = << >>
    /\ messages = << >>
    /\ submissions = 0
    /\ result = NoResult
    /\ op = "none"
    /\ user_text = ""
    /\ turns = 0
    /\ pc = "idle"
    /\ collected = << >>
    /\ attempt = 0
    /\ input_items = << >>
    /\ tool_calls = 0
    /\ tool_return = None
    /\ v_node = NoNode
    /\ v_text = ""
    /\ v_result = Accept
    /\ v_done = FALSE
    /\ durable = Pending

InitRateLimit ==
    /\ SessionAtRest
    /\ greeting = None
    /\ NoTurnInFlight
    /\ rl_redis \in BOOLEAN
    /\ rl_memory = << >>
    /\ rl_zset = << >>
    /\ rl_now = 0
    /\ rl_max \in MaxRequestsArgs
    /\ rl_window \in WindowArgs
    /\ rl_key = None
    /\ rl_ret = TRUE
    /\ rl_calls = [k \in RateKeys |-> << >>]

NextRateLimit == \E key \in RateKeys, tick \in 0..MaxClock : CheckRateLimit(key, tick)

SpecRateLimit == InitRateLimit /\ [][NextRateLimit]_vars

\* ========================================================================
\* Properties
\* ========================================================================
\* the step submits a turn (process_user_message or process_agent_message)
TurnSubmitted == turns' = turns + 1

\* the field keys that have a row in answers
AnswerKeys(rows) == {rows[i].field_key : i \in 1..Len(rows)}

\* the checks of the validator, each stated on its own
FailsRequired(node, text) == node.required /\ strip(text) = ""
IsNumberRule(node) ==
    "type" \in DOMAIN node.validation_json /\ node.validation_json.type = "number"
FailsParse(node, text) == IsNumberRule(node) /\ ~float_ok(strip(text))
FailsMin(node, text) ==
    /\ IsNumberRule(node) /\ float_ok(strip(text))
    /\ "min" \in DOMAIN node.validation_json
    /\ ~IsNaN(strip(text))
    /\ float(strip(text)) < node.validation_json.min
FailsMax(node, text) ==
    /\ IsNumberRule(node) /\ float_ok(strip(text))
    /\ "max" \in DOMAIN node.validation_json
    /\ ~IsNaN(strip(text))
    /\ float(strip(text)) > node.validation_json.max
FailsRegex(node, text) ==
    /\ "regex" \in DOMAIN node.validation_json
    /\ node.validation_json.regex # ""
    /\ strip(text) # ""
    /\ ~re_match(node.validation_json.regex, strip(text))
FailsEnum(node, text) ==
    /\ "enum" \in DOMAIN node.validation_json
    /\ Len(node.validation_json.enum) > 0
    /\ \A i \in 1..Len(node.validation_json.enum) :
          lower(node.validation_json.enum[i]) # lower(strip(text))
FailsSomeCheck(node, text) ==
    \/ FailsRequired(node, text) \/ FailsParse(node, text)
    \/ FailsMin(node, text) \/ FailsMax(node, text)
    \/ FailsRegex(node, text) \/ FailsEnum(node, text)

\* C1: a turn submitted (graph or agentic path) to a session whose status
\* is not 'active' returns accepted=false with the 'no longer active' reply
\* and changes neither status, current node, answers, messages nor
\* submission; no model run is started.
C1_InactiveGuard ==
    [][ (TurnSubmitted /\ status # "active") =>
            /\ result'.accepted = FALSE
            /\ result'.assistant_message = InactiveText
            /\ result'.state = status
            /\ UNCHANGED <<status, current_node_id, answers, messages, submissions>>
            /\ pc' = "idle"
            /\ UNCHANGED <<collected, input_items>> ]_vars

\* an agentic turn was refused on a completed session
C1_Witness ==
    /\ op = "process_agent_message"
    /\ status = "completed"
    /\ result.accepted = FALSE
    /\ result.assistant_message = InactiveText
    /\ pc = "idle"

\* C2: the status of a session only ever changes from 'active' to
\* 'completed' or from 'active' to 'error'.
C2_StatusMonotone ==
    [][ status' # status =>
            (status = "active" /\ status' \in {"completed", "error"}) ]_vars

\* a session completed by a turn was completed again by hand
C2_Witness ==
    /\ op = "complete_session"
    /\ status = "completed"
    /\ result.state = "completed"

\* C3: a graph turn whose text fails a check of the validator returns
\* accepted=false with state 'active', adds no answer, keeps the current
\* node, the status and the submission, and writes exactly the user
\* message and the assistant message carrying the reason.
C3_NoPartialPersistence ==
    [][ ( /\ TurnSubmitted /\ op' = "process_user_message"
          /\ status = "active" /\ NodeExists(current_node_id)
          /\ FailsSomeCheck(GetNode(current_node_id), user_text') ) =>
            /\ result'.accepted = FALSE
            /\ result'.state = "active"
            /\ answers' = answers
            /\ UNCHANGED <<current_node_id, status, submissions>>
            /\ messages' = messages \o
                  <<Message("user", user_text'),
                    Message("assistant", result'.assistant_message)>>
            /\ result'.assistant_message \notin {CompletionText, InactiveText} ]_vars

\* the e-mail node rejected a text after the name was answered
C3_Witness ==
    /\ op = "process_user_message"
    /\ current_node_id = "n2"
    /\ result.accepted = FALSE
    /\ result.assistant_message = ReasonRegex
    /\ Len(answers) = 1
    /\ Len(messages) = 4

\* C4: the set of field keys that have a persisted answer never shrinks.
C4_MonotonicAnswerSet ==
    [][ AnswerKeys(answers) \subseteq AnswerKeys(answers') ]_vars

\* a second turn saved a second key next to the one of the first turn
C4_Witness ==
    /\ form_id = "f4"
    /\ turns = 2
    /\ op = "save_answer"
    /\ AnswerKeys(answers) = {"full_name", "email"}

\* user, assistant, user, assistant, ...
Alternating(rows) ==
    \A i \in 1..Len(rows) : rows[i].role = IF i % 2 = 1 THEN "user" ELSE "assistant"

LinearVersion(version_id) ==
    \A i \in 1..Len(FormGraphNode) :
        FormGraphNode[i].form_version_id = version_id =>
            LET out == {j \in 1..Len(FormGraphEdge) :
                           /\ FormGraphEdge[j].form_version_id = version_id
                           /\ FormGraphEdge[j].from_node_id = FormGraphNode[i].id}
            IN  /\ Cardinality(out) = 1
                /\ \A j \in out : DOMAIN FormGraphEdge[j].condition_json = {}

\* the target of the only edge leaving the node
OnlyTarget(version_id, node_id) ==
    LET j == CHOOSE j \in 1..Len(FormGraphEdge) :
                 /\ FormGraphEdge[j].form_version_id = version_id
                 /\ FormGraphEdge[j].from_node_id = node_id
    IN  FormGraphEdge[j].to_node_id

StartsWith(s, prefix) == Len(s) >= Len(prefix) /\ SubSeq(s, 1, Len(prefix)) = prefix

\* C6: on a linear form every accepted answer moves current_node_id to the
\* target of the current node's edge and returns state 'active' with that
\* node's prompt; the session becomes 'completed' (current node null,
\* accepted, state 'completed') exactly on the accepted answer given at the
\* node whose edge targets null.
C6_LinearWalk ==
    [][ ( /\ TurnSubmitted /\ op' = "process_user_message"
          /\ LinearVersion(form_version_id)
          /\ status = "active" /\ NodeExists(current_node_id) ) =>
            LET target == OnlyTarget(form_version_id, current_node_id)
            IN  /\ result'.accepted =>
                      /\ current_node_id' = target
                      /\ target # None =>
                            /\ status' = "active"
                            /\ result'.state = "active"
                            /\ StartsWith(result'.assistant_message, GetNode(target).prompt)
                            /\ result'.current_node_key = GetNode(target).key
                      /\ target = None =>
                            /\ status' = "completed"
                            /\ result'.state = "completed"
                            /\ result'.assistant_message = CompletionText
                /\ ~result'.accepted =>
                      /\ status' = "active"
                      /\ current_node_id' = current_node_id
                /\ status' = "completed" <=> (result'.accepted /\ target = None) ]_vars

\* the linear form was walked to its end in three accepted turns
C6_Witness ==
    /\ form_version_id = "v1"
    /\ op = "process_user_message"
    /\ status = "completed"
    /\ current_node_id = None
    /\ result.accepted
    /\ Len(answers) = 3

\* every required field of the schema has an entry in the dict
AllRequiredIn(schema, dict) ==
    \A i \in 1..Len(schema) :
        ~("required" \in DOMAIN schema[i] /\ schema[i].required = FALSE)
            => schema[i].name \in DOMAIN dict

SchemaNames(schema) == {schema[i].name : i \in 1..Len(schema)}

\* C7: immediately after every successful save_answer call the status is
\* 'completed' if and only if every required field of the schema has a
\* collected answer, and the saved field is collected and persisted.
C7_AgenticCompletion ==
    [][ op' = "save_answer" => \A f \in ToolFieldNames, v \in ToolValues :
          ( /\ SaveAnswer(f, v)
            /\ (SchemaNames(Form[form_id].fields_schema) = {}
                \/ f \in SchemaNames(Form[form_id].fields_schema)) ) =>
              /\ status' = "completed"
                    <=> AllRequiredIn(Form[form_id].fields_schema, collected')
              /\ f \in DOMAIN collected'
              /\ f \in AnswerKeys(answers')
              /\ AllRequiredIn(Form[form_id].fields_schema, collected')
                    => AllRequiredIn(Form[form_id].fields_schema,
                                     _load_collected_answers(answers')) ]_vars

\* one turn in which both required fields were saved ended completed
C7_Witness ==
    /\ form_id = "f3"
    /\ turns = 1
    /\ op = "run_returned"
    /\ pc = "idle"
    /\ status = "completed"
    /\ result.state = "completed"
    /\ AnswerKeys(answers) = {"full_name", "email"}
    /\ submissions = 1

\* C8: once a session is 'completed', a further save_answer call or turn
\* never changes a value in collected_answers and never adds or changes an
\* answer, and a further turn is answered with the 'no longer active' reply.
C8_IdempotentCompletion ==
    [][ status = "completed" =>
            /\ answers' = answers
            /\ pc' = "run" => collected' = collected
            /\ TurnSubmitted => result'.assistant_message = InactiveText ]_vars

\* C9 (as stated): every save_answer call whose field_name is not a name of
\* the schema, also when the schema is empty, returns an error string and
\* changes neither answers, collected_answers, status nor submission.
C9_UnknownFieldRejected ==
    [][ op' = "save_answer" => \A f \in ToolFieldNames, v \in ToolValues :
          (SaveAnswer(f, v) /\ f \notin SchemaNames(Form[form_id].fields_schema)) =>
              /\ StartsWith(tool_return', "Error")
              /\ UNCHANGED <<answers, collected, status, submissions>> ]_vars

\* C9 (amended): every save_answer call whose field_name is not a name of a
\* non-empty schema returns an error string and changes neither answers,
\* collected_answers, status nor submission; when the schema is empty no
\* name is rejected and the value is saved.
C9_UnknownFieldRejectedBySchema ==
    [][ op' = "save_answer" => \A f \in ToolFieldNames, v \in ToolValues :
          SaveAnswer(f, v) =>
              IF SchemaNames(Form[form_id].fields_schema) = {}
              THEN /\ ~StartsWith(tool_return', "Error")
                   /\ f \in DOMAIN collected'
                   /\ f \in AnswerKeys(answers')
              ELSE f \notin SchemaNames(Form[form_id].fields_schema) =>
                       /\ StartsWith(tool_return', "Error")
                       /\ UNCHANGED <<answers, collected, status, submissions>> ]_vars

\* save_answer refused a name that the two-field schema does not hold
C9_Witness ==
    /\ form_id = "f3"
    /\ op = "save_answer"
    /\ tool_return = "Error: 'nickname' is not a valid field."
    /\ answers = << >>
    /\ status = "active"

\* the verdict the order required-empty, numeric parse, min, max, regex,
\* enum prescribes
FirstFailure(node, text) ==
    IF FailsRequired(node, text) THEN Reject(ReasonRequired)
    ELSE IF FailsParse(node, text) THEN Reject(ReasonNumber)
    ELSE IF FailsMin(node, text) THEN Reject(ReasonMin(node.validation_json.min))
    ELSE IF FailsMax(node, text) THEN Reject(ReasonMax(node.validation_json.max))
    ELSE IF FailsRegex(node, text) THEN Reject(ReasonRegex)
    ELSE IF FailsEnum(node, text) THEN Reject(ReasonEnum(node.validation_json.enum))
    ELSE Accept

\* C10: _validate_answer returns the rejection reason of the first failing
\* check in the order required-empty, numeric parse, min bound, max bound,
\* regex, enum, and accepts a text that fails none.
C10_ValidatorOrder ==
    v_done =>
        /\ v_result = FirstFailure(v_node, v_text)
        /\ v_result.ok <=> ~FailsSomeCheck(v_node, v_text)

\* a required number field with a pattern was given a text that is neither
\* a number nor a match, and the number reason was returned
C10_Witness ==
    /\ v_done
    /\ v_node.required
    /\ FailsParse(v_node, v_text)
    /\ FailsRegex(v_node, v_text)
    /\ ~FailsRequired(v_node, v_text)
    /\ v_result = Reject(ReasonNumber)

\* C11: an optional node accepts every text that is empty after trimming,
\* whatever its validation rule (a number type, bounds, a pattern, an enum).
C11_OptionalEmptyAccepted ==
    (v_done /\ ~v_node.required /\ strip(v_text) = "") => v_result.ok

\* a non-empty string of decimal digits
IsNumeral(s) == Len(s) > 0 /\ \A i \in 1..Len(s) : IsDigit(CharAt(s, i))

\* C12: under a rule made of type 'number' with min <= max, an integer
\* text is accepted exactly when min <= v <= max, a smaller one is rejected
\* naming min, a larger one naming max, and a text that is not a number is
\* rejected as not a valid number.
C12_NumericBounds ==
    ( /\ v_done
      /\ DOMAIN v_node.validation_json = {"type", "min", "max"}
      /\ v_node.validation_json.min <= v_node.validation_json.max ) =>
        LET lo == v_node.validation_json.min
            hi == v_node.validation_json.max
            t == strip(v_text)
        IN  /\ IsNumeral(t) =>
                  /\ v_result.ok <=> (lo <= float(t) /\ float(t) <= hi)
                  /\ float(t) < lo => v_result = Reject(ReasonMin(lo))
                  /\ float(t) > hi => v_result = Reject(ReasonMax(hi))
            /\ (~IsNumeral(t) /\ t # "") => v_result = Reject(ReasonNumber)

\* the position of a graph session is well formed
PositionOK ==
    /\ \/ current_node_id = None
       \/ /\ NodeExists(current_node_id)
          /\ GetNode(current_node_id).form_version_id = form_version_id
    /\ current_node_id = None <=> status # "active"

\* C13: a graph session that starts at a node of its own form version keeps,
\* in every state its turns reach, a current_node_id that is the id of a
\* stored node of that version or null, and null exactly when the status
\* is not 'active'.
C13_GraphPosition ==
    (form_version_id # None /\ PositionOK) => [](PositionOK)

\* the branching form was walked from its start over the age node to the
\* plan node
C13_Witness ==
    /\ form_version_id = "v2"
    /\ op = "process_user_message"
    /\ status = "active"
    /\ current_node_id = "n6"
    /\ Len(answers) = 2

\* C14: a session never holds two answers rows with the same field_key.
C14_AnswerUniqueness ==
    \A i, j \in 1..Len(answers) :
        answers[i].field_key = answers[j].field_key => i = j

\* C15: a graph turn on an active session whose current_node_id names no
\* stored node is refused with the 'session state is invalid' reply and
\* moves the status to 'error'.
C15_InvalidStateMovesToError ==
    [][ ( /\ TurnSubmitted /\ op' = "process_user_message"
          /\ status = "active" /\ ~NodeExists(current_node_id) ) =>
            /\ result'.accepted = FALSE
            /\ result'.assistant_message = InvalidStateText
            /\ status' = "error" ]_vars

\* the condition of an edge as the rule of edge resolution states it; a
\* condition with neither key matches nothing
ConditionHolds(condition, answer) ==
    \/ DOMAIN condition = {}
    \/ /\ "equals" \in DOMAIN condition
       /\ lower(strip(answer)) = lower(strip(condition.equals))
    \/ /\ DOMAIN condition # {}
       /\ "equals" \notin DOMAIN condition
       /\ "contains" \in DOMAIN condition
       /\ contains(lower(strip(condition.contains)), lower(strip(answer)))

\* the positions, in stored order, of the outgoing edges of the current
\* node whose condition holds for the text
MatchingEdges(text) ==
    LET edges == OutgoingEdges(form_version_id, current_node_id)
    IN  {i \in 1..Len(edges) : ConditionHolds(edges[i].condition_json, text)}

\* C19: an accepted answer follows the first outgoing edge, in stored
\* order, whose condition holds for the raw text (no condition: always;
\* equals: trimmed, case-insensitive equality; contains: trimmed,
\* case-insensitive substring); a later matching edge is not followed, and
\* a first matching edge with a null target completes the session.
C19_EdgeResolution ==
    [][ ( /\ TurnSubmitted /\ op' = "process_user_message"
          /\ status = "active" /\ NodeExists(current_node_id)
          /\ result'.accepted
          /\ MatchingEdges(user_text') # {} ) =>
            LET edges == OutgoingEdges(form_version_id, current_node_id)
                first == CHOOSE i \in MatchingEdges(user_text') :
                             \A j \in MatchingEdges(user_text') : i <= j
            IN  IF edges[first].to_node_id = None
                THEN status' = "completed" /\ current_node_id' = None
                ELSE status' = "active" /\ current_node_id' = edges[first].to_node_id ]_vars

\* " A " took the equals edge although the later contains edge matches too,
\* then "15" took the edge to null although the later edge has no condition
C19_Witness ==
    /\ form_version_id = "v2"
    /\ op = "process_user_message"
    /\ user_text = "15"
    /\ status = "completed"
    /\ current_node_id = None
    /\ answers = <<Answer("choice", "A"), Answer("age", "15")>>

\* C20: an answer accepted at a node none of whose outgoing edges matches,
\* or that has no outgoing edge, is stored and completes the session: status
\* 'completed', current node null, one submission, the fixed completion
\* message.
C20_DeadEndCompletes ==
    [][ ( /\ TurnSubmitted /\ op' = "process_user_message"
          /\ status = "active" /\ NodeExists(current_node_id)
          /\ ~FailsSomeCheck(GetNode(current_node_id), user_text')
          /\ MatchingEdges(user_text') = {} ) =>
            /\ answers' = Append(answers, Answer(GetNode(current_node_id).key,
                                                 strip(user_text')))
            /\ status' = "completed"
            /\ current_node_id' = None
            /\ submissions' = 1
            /\ result' = FlowResult(TRUE, "completed", CompletionText, None)
            /\ messages' = messages \o <<Message("user", user_text'),
                                         Message("assistant", CompletionText)>> ]_vars

\* the plan node, which has no outgoing edge, took an answer
C20_Witness ==
    /\ form_version_id = "v2"
    /\ op = "process_user_message"
    /\ status = "completed"
    /\ submissions = 1
    /\ Len(answers) = 3
    /\ answers[3] = Answer("plan", "15")
    /\ result.assistant_message = CompletionText

\* no durable state shows every required field answered, or a graph walk
\* past its last node, without the status 'completed'
DurableComplete ==
    IF form_version_id = None
    THEN ( /\ Len(durable.answers) > 0
           /\ AllRequiredIn(Form[form_id].fields_schema,
                            _load_collected_answers(durable.answers)) )
             => durable.status = "completed"
    ELSE durable.current_node_id = None => durable.status = "completed"

\* C16: the writes of a turn (messages, answers, status, submission)
\* become durable together, in the one commit that follows the return of
\* the engine; while the turn runs nothing is durable, a turn that aborts
\* before the commit leaves the durable state as it was, and no durable
\* state holds a completing answer without the status 'completed'.
C16_SingleCommit ==
    [][ /\ durable' # durable => (pc = pc' \/ pc = "run") /\ pc' = "idle"
        /\ pc' = "run" => durable' = durable
        /\ pc' = "idle" => durable' = Pending'
        /\ op' = "turn_aborted" => (durable' = durable /\ Pending' = durable)
        /\ DurableComplete' ]_vars

\* the first turn committed its answer with its two messages; the second
\* turn aborted and left nothing behind
C16_Witness ==
    /\ op = "turn_aborted"
    /\ turns = 2
    /\ durable.answers = <<Answer("full_name", "a")>>
    /\ Len(durable.messages) = 2
    /\ durable.status = "active"
    /\ Pending = durable

\* the calls made so far for rl_key all lie inside one window that ends at
\* the latest call
InOneWindow == rl_now - rl_calls[rl_key][1] < rl_window

\* C18: while all the calls made for a key lie inside one window, the call
\* returns True exactly when it is among the first max_requests calls for
\* that key; the entries of the other key are left alone.
C18_RateLimiter ==
    [][ /\ InOneWindow' => (rl_ret' <=> Len(rl_calls'[rl_key']) <= rl_max)
        /\ \A k \in RateKeys \ {rl_key'} :
              /\ k \in DOMAIN rl_memory' <=> k \in DOMAIN rl_memory
              /\ k \in DOMAIN rl_memory => rl_memory'[k] = rl_memory[k]
              /\ k \in DOMAIN rl_zset' <=> k \in DOMAIN rl_zset
              /\ k \in DOMAIN rl_zset => rl_zset'[k] = rl_zset[k] ]_vars

\* C17: two turns of one session are never in flight together: a handler
\* does not enter process_agent_message while the turn of the other
\* handler has not finished and committed.
C17_NoOverlappingTurns ==
    \A r1, r2 \in Requests :
        r1 # r2 => ~(req[r1].pc # "idle" /\ req[r2].pc # "idle")

\* C21: an agentic turn invokes the model at most MaxAttempts times (the
\* invocation in progress is number attempt + 1).  A failure whose text is
\* transient is retried while an attempt remains; any other failure, and
\* the failure of the last attempt, ends the turn with a stored reply that
\* is returned to the caller: the exception does not leave
\* process_agent_message.
C21_BoundedRetry ==
    [][ /\ pc = "run" => attempt + 1 <= MaxAttempts
        /\ \A transient \in BOOLEAN :
              RunRaises(transient) =>
                 IF transient /\ attempt + 1 < MaxAttempts
                 THEN /\ pc' = "run"
                      /\ attempt' = attempt + 1
                      /\ UNCHANGED <<messages, result>>
                 ELSE /\ pc' = "idle"
                      /\ result'.assistant_message # None
                      /\ messages' = Append(messages,
                                            Message("assistant", result'.assistant_message)) ]_vars

\* the third invocation of a turn is in progress after two retried failures
C21_Witness == pc = "run" /\ attempt = MaxAttempts - 1 /\ op = "run_raised"

\* the step in which the last model attempt of a turn failed
LastAttemptFailed == pc = "run" /\ op' = "run_raised" /\ pc' = "idle"

\* C22: when every model attempt of a turn failed, the reply is the
\* completion message exactly when every required field has a persisted
\* answer (the answers saved during the failed attempts included); the
\* turn then ends 'completed' with one submission, and otherwise 'active'.
C22_FallbackAgrees ==
    [][ LastAttemptFailed =>
          LET persisted == _load_collected_answers(answers')
              all == AllRequiredIn(Form[form_id].fields_schema, persisted)
          IN  /\ result'.assistant_message = ThankYouText <=> all
              /\ all => /\ status' = "completed"
                        /\ result'.state = "completed"
                        /\ submissions' = 1
              /\ ~all => /\ status' = "active"
                         /\ result'.state = "active" ]_vars

\* both required fields were saved during the attempts of a turn whose
\* last attempt failed
C22_Witness ==
    /\ form_id = "f3"
    /\ turns = 1
    /\ op = "run_raised"
    /\ pc = "idle"
    /\ AnswerKeys(answers) = {"full_name", "email"}
    /\ status = "completed"
    /\ submissions = 1
    /\ result.assistant_message = ThankYouText

\* the positions of the schema whose field is required and has no answer
\* among the rows
MissingPositions(schema, rows) ==
    {i \in 1..Len(schema) :
        /\ ~("required" \in DOMAIN schema[i] /\ schema[i].required = FALSE)
        /\ schema[i].name \notin AnswerKeys(rows)}

\* "Got it. Could you tell me: {description}?" for the field at position i
DirectPrompt(schema, i) ==
    "Got it. Could you tell me: "
        \o (IF "description" \in DOMAIN schema[i] THEN schema[i].description
            ELSE schema[i].name)
        \o "?"

\* C23: when every model attempt of a turn failed, a field that had no
\* answer before the turn was saved during the attempts and a required
\* field is still missing, the reply is the direct prompt for the first
\* missing required field; the generic reply is given only when the turn
\* saved no new field.
C23_FallbackPromptsNextField ==
    [][ LastAttemptFailed =>
          LET schema == Form[form_id].fields_schema
              missing == MissingPositions(schema, answers')
              first == CHOOSE i \in missing : \A j \in missing : i <= j
              saved_new == AnswerKeys(answers') # AnswerKeys(durable.answers)
          IN  /\ (saved_new /\ missing # {})
                    => result'.assistant_message = DirectPrompt(schema, first)
              /\ result'.assistant_message = TroubleText => ~saved_new ]_vars

\* the rows of the other fields, in order
OtherRows(rows, field_name) ==
    LET Other(a) == a.field_key # field_name
    IN  SelectSeq(rows, Other)

\* C24: after every successful save_answer call the field has exactly one
\* persisted row, its value and the field's entry in collected_answers are
\* the trimmed value of that call, and the rows and entries of the other
\* fields are as they were.
C24_UpsertLastWriteWins ==
    [][ op' = "save_answer" => \A f \in ToolFieldNames, v \in ToolValues :
          ( /\ SaveAnswer(f, v)
            /\ ~StartsWith(tool_return', "Error") ) =>
              /\ Cardinality({i \in 1..Len(answers') : answers'[i].field_key = f}) = 1
              /\ \A i \in 1..Len(answers') :
                    answers'[i].field_key = f => answers'[i].value_text = strip(v)
              /\ OtherRows(answers', f) = OtherRows(answers, f)
              /\ DOMAIN collected' = DOMAIN collected \cup {f}
              /\ collected'[f] = strip(v)
              /\ \A k \in DOMAIN collected \ {f} : collected'[k] = collected[k] ]_vars

\* the value committed by the first turn was overwritten by a call of the
\* second turn with another value
C24_Witness ==
    /\ turns = 2
    /\ op = "save_answer"
    /\ durable.answers = <<Answer("email", "a")>>
    /\ answers = <<Answer("email", "15")>>
    /\ collected = [email |-> "15"]

\* C25: a turn whose reply reports a failure (the validator rejected the
\* text, the session is not active, the session state is invalid, the form
\* is not found, or the model path failed and the generic reply is given)
\* returns accepted=false.
C25_FailureNotAccepted ==
    [][ /\ ( /\ TurnSubmitted /\ op' = "process_user_message"
             /\ status = "active" /\ NodeExists(current_node_id)
             /\ FailsSomeCheck(GetNode(current_node_id), user_text') )
              => result'.accepted = FALSE
        /\ (TurnSubmitted /\ pc' = "idle"
              /\ result'.assistant_message
                    \in {InactiveText, InvalidStateText, FormNotFoundText})
              => result'.accepted = FALSE
        /\ (LastAttemptFailed /\ result'.assistant_message = TroubleText)
              => result'.accepted = FALSE ]_vars

\* C26: generate_initial_greeting invokes the model at most
\* GreetingAttempts times (the invocation in progress is number
\* attempt + 1); it ends at the first output that is not blank and returns
\* that output trimmed; when the last attempt also fails or returns a blank
\* output it returns the templated welcome naming the form title; the
\* returned greeting is never empty and is the one assistant message
\* stored, and the status, the answers and the submissions are unchanged.
C26_InitialGreeting ==
    [][ /\ pc = "greet" => attempt + 1 <= GreetingAttempts
        /\ (pc = "greet" /\ pc' = "greet") =>
              /\ attempt' = attempt + 1
              /\ UNCHANGED <<messages, greeting>>
        /\ (pc = "greet" /\ pc' = "idle") =>
              /\ greeting' \notin {"", None}
              /\ messages' = Append(messages, Message("assistant", greeting'))
              /\ durable'.messages = <<Message("assistant", greeting')>>
              /\ UNCHANGED <<status, answers, submissions>>
              /\ \/ \E out \in GreetingOutputs : strip(out) # "" /\ greeting' = strip(out)
                 \/ /\ attempt + 1 = GreetingAttempts
                    /\ greeting' = WelcomeText(Form[form_id].title)
        /\ \A out \in GreetingOutputs :
              (GreetReturns(out) /\ strip(out) # "") =>
                  pc' = "idle" /\ greeting' = strip(out) ]_vars

\* three attempts failed or returned a blank output and the session of
\* the form 'Contact' was greeted with the templated welcome
C26_Witness ==
    /\ form_id = "f3"
    /\ op = "generate_initial_greeting"
    /\ pc = "idle"
    /\ greeting = "Hi! Welcome to Contact. I'll ask you a few questions--let's get started!"
    /\ messages = <<Message("assistant", greeting)>>
    /\ durable.messages = messages
    /\ status = "active"

\* C27: a session never has more than one submission, a session whose
\* status is 'completed' has exactly one, and the committed rows agree:
\* whichever site completed the session (graph turn, save_answer, agentic
\* fallback, complete_session), and however often it is completed again.
C27_SubmissionInvariant ==
    /\ submissions <= 1
    /\ status = "completed" => submissions = 1
    /\ durable.submissions <= 1
    /\ durable.status = "completed" => durable.submissions = 1

\* a session completed by a graph turn was completed again by hand
C27_Witness ==
    /\ form_id = "f1"
    /\ op = "complete_session"
    /\ turns > 0
    /\ result.assistant_message = CompletionText
    /\ status = "completed"
    /\ submissions = 1
    /\ durable.submissions = 1

\* C28: a turn in which every model attempt failed and no save_answer call
\* changed an answer leaves the status 'active' and the answers as they
\* were, and its reply is not the completion message.
C28_FailureDoesNotComplete ==
    [][ (LastAttemptFailed /\ status = "active" /\ answers = durable.answers) =>
          /\ status' = "active"
          /\ answers' = answers
          /\ result'.assistant_message # ThankYouText ]_vars

\* C29: while the model runs, the items passed to it are at most
\* max_messages of the messages stored before the turn, the most recent
\* ones in arrival order, followed by the current message, which is the
\* last item and is passed once.
C29_ModelInput ==
    pc = "run" =>
        LET earlier == SubSeq(messages, 1, Len(messages) - 1)
            window == IF Len(earlier) > max_messages
                      THEN SubSeq(earlier, Len(earlier) - max_messages + 1, Len(earlier))
                      ELSE earlier
        IN  /\ messages[Len(messages)] = Message("user", user_text)
            /\ input_items = window \o <<Message("user", user_text)>>

\* handler r flushed the user message of its turn, has not committed, and
\* the other handler committed a message after that flush: r's turn was in
\* flight when the other handler committed
InFlightAcrossCommit(r) ==
    /\ req[r].pc = "run"
    /\ \E i, j \in 1..Len(created) :
          /\ i < j
          /\ created[i].owner = r
          /\ ~created[i].committed
          /\ created[j].committed

\* C30: when a turn passed the status check, the other handler completed
\* the session while that turn was in flight, and the turn then ends, the
\* answers and the messages of the completed session are as they were at
\* the completion.
C30_NoWriteAfterCompletion ==
    [][ \A r \in Requests :
          ( /\ durable.status = "completed"
            /\ InFlightAcrossCommit(r)
            /\ req'[r].pc = "idle" ) =>
              /\ durable'.answers = durable.answers
              /\ durable'.messages = durable.messages ]_vars

====
